---- MODULE Spec2Model ----
(***************************************************************************)
(* AccessKit: the tree update schema (schema/src/lib.rs), the Windows      *)
(* platform bridge (platforms/windows/src/manager.rs), and the parts they  *)
(* call: the tree consistency engine (accesskit_consumer::Tree) and the    *)
(* lazy shared tree handle (lazy_init::LazyTransform).                     *)
(***************************************************************************)
EXTENDS Integers, Sequences, FiniteSets, TLC

(* ------------------------------ bounds -------------------------------- *)
\* Node ids are 1..MaxNodeId; 0 is Option<NodeId>::None (NodeId is NonZeroU64).
MaxNodeId == 3
\* Longest nodes sequence of a generated TreeUpdate.
MaxBatchLen == 2
\* Longest child_ids of a generated Node.
MaxChildren == 2
\* Number of concurrent callers of one Manager.
NumThreads == 2

NodeIds == 1..MaxNodeId
OptNodeId == 0..MaxNodeId
Names == {"Foo", "Bar"}
Threads == 1..NumThreads

Range(s) == {s[i] : i \in 1..Len(s)}
Restrict(f, S) == [x \in S |-> f[x]]

(* ------------------------- schema/src/lib.rs --------------------------- *)
\* Option<T>: None is the empty sequence, Some(x) is <<x>>.
None == <<>>
Some(x) == <<x>>

\* struct Node: id, child_ids and the Name attribute (the rest of the payload
\* is opaque to the engine and compared the same way).
NodeData(child_ids, name) == [child_ids |-> child_ids, name |-> name]
Node(id, child_ids, name) == [child_ids |-> child_ids, id |-> id, name |-> name]

\* struct Tree: the whole-tree metadata; focused_node_id is Option<NodeId>.
Tree(focused_node_id) == [focused_node_id |-> focused_node_id]

\* struct TreeUpdate
TreeUpdate(node_id_to_clear, nodes, tree, root_id) ==
    [node_id_to_clear |-> node_id_to_clear, nodes |-> nodes,
     root_id |-> root_id, tree |-> tree]

(* ---------------- tree consistency engine (apply, read) ---------------- *)
\* The engine state: the node store, the root id and the whole-tree metadata.
State(nodes, root, tree) == [nodes |-> nodes, root |-> root, tree |-> tree]
EmptyState == State(<<>>, 0, None)

\* enum TreeChange
NodeAdded(id) == [id |-> id, kind |-> "NodeAdded"]
NodeUpdated(id, old, new) ==
    [id |-> id, kind |-> "NodeUpdated", new_node |-> new, old_node |-> old]
NodeRemoved(id) == [id |-> id, kind |-> "NodeRemoved"]
FocusMoved(old, new) == [kind |-> "FocusMoved", new_node |-> new, old_node |-> old]

\* The ids reachable from `frontier` through child_ids, `seen` included.
RECURSIVE Closure(_, _, _)
Closure(nodes, frontier, seen) ==
    IF frontier = {} THEN seen
    ELSE LET next == UNION {Range(nodes[x].child_ids) :
                              x \in frontier \cap DOMAIN nodes} \ seen
         IN Closure(nodes, next, seen \cup next)

Subtree(nodes, n) == Closure(nodes, {n}, {n})
Descendants(nodes, n) == Subtree(nodes, n) \ {n}

\* The working copy of one batch application: the store, the placeholders in
\* the tree, the placeholders not yet updated, the ids removed, the changes.
Work(s) == [changes |-> <<>>, nodes |-> s.nodes, ok |-> TRUE, owed |-> {},
            pending |-> {}, removed |-> {}]

InTree(w) == DOMAIN w.nodes \cup w.pending

\* Remove the ids `gone` from the working tree and mark them removed.
Detach(w, gone) ==
    [w EXCEPT !.nodes = Restrict(w.nodes, DOMAIN w.nodes \ gone),
              !.pending = w.pending \ gone,
              !.removed = w.removed \cup (gone \cap DOMAIN w.nodes)]

\* (an engine that ignores node_id_to_clear)
Clear_Ignored(w, node_id_to_clear) == w

\* node_id_to_clear: delete all of the node's children and their descendants,
\* leave the node in the tree.
Clear(w, node_id_to_clear) ==
    IF node_id_to_clear \notin DOMAIN w.nodes THEN w
    ELSE Detach(w, Descendants(w.nodes, node_id_to_clear))

\* "It's an error to clear a node but not subsequently update it as part of
\* the same TreeUpdate."
ClearedNodeUpdated(u) ==
    \/ u.node_id_to_clear = 0
    \/ \E i \in 1..Len(u.nodes) : u.nodes[i].id = u.node_id_to_clear

\* (an engine that takes an entry for any id)
UpsertAllowed_Any(w, u, e) == TRUE

\* The first invariant of TreeUpdate::nodes: the id is already in the tree
\* (placeholders included), or the tree is empty and the node is the new root.
UpsertAllowed(w, u, e) ==
    \/ e.id \in InTree(w)
    \/ InTree(w) = {} /\ u.root_id = e.id

\* The children the node has in the working tree.
CurrentChildren(w, id) ==
    IF id \in DOMAIN w.nodes THEN Range(w.nodes[id].child_ids) \cap InTree(w) ELSE {}

\* (an engine that takes any child list)
ChildrenAllowed_Any(w, e) == TRUE

\* The second invariant: every child id is already a child of this node, or
\* a new id not in the tree.
ChildrenAllowed(w, e) ==
    \A k \in Range(e.child_ids) :
        \/ k \in CurrentChildren(w, e.id)
        \/ k \notin InTree(w) \cup {e.id}

\* (an engine that lets placeholders stay)
PlaceholdersUpdated_Unchecked(w) == TRUE

\* The third invariant: every placeholder was updated within the TreeUpdate.
PlaceholdersUpdated(w) == w.owed = {}

\* (a comparison that finds every two nodes different)
NodeEq_Never(a, b) == FALSE

\* PartialEq of Node (derived): field by field.
NodeEq(a, b) == a.child_ids = b.child_ids /\ a.name = b.name

\* One entry of TreeUpdate::nodes.
ApplyNode(pre, w, u, e) ==
    IF ~w.ok THEN w
    ELSE IF ~UpsertAllowed(w, u, e) \/ ~ChildrenAllowed(w, e)
    THEN [w EXCEPT !.ok = FALSE]
    ELSE
      LET new == NodeData(e.child_ids, e.name)
          dropped == CurrentChildren(w, e.id) \ Range(e.child_ids)
          gone == UNION {Subtree(w.nodes, k) : k \in dropped}
          w1 == Detach(w, gone)
          placeholders == Range(e.child_ids) \ InTree(w1)
          existed == e.id \in DOMAIN w1.nodes
          readded == /\ ~existed
                     /\ e.id \in w1.removed
                     /\ e.id \in DOMAIN pre.nodes
                     /\ NodeEq(pre.nodes[e.id], new)
          change == IF existed
                    THEN IF NodeEq(w1.nodes[e.id], new) THEN <<>>
                         ELSE <<NodeUpdated(e.id, w1.nodes[e.id], new)>>
                    ELSE IF readded THEN <<>> ELSE <<NodeAdded(e.id)>>
      IN [changes |-> w1.changes \o change,
          nodes |-> [x \in DOMAIN w1.nodes \cup {e.id} |->
                        IF x = e.id THEN new ELSE w1.nodes[x]],
          ok |-> TRUE,
          owed |-> (w1.owed \cup placeholders) \ {e.id},
          pending |-> (w1.pending \cup placeholders) \ {e.id},
          removed |-> IF readded THEN w1.removed \ {e.id} ELSE w1.removed]

RECURSIVE ApplyNodes(_, _, _, _)
ApplyNodes(pre, w, u, i) ==
    IF i > Len(u.nodes) THEN w
    ELSE ApplyNodes(pre, ApplyNode(pre, w, u, u.nodes[i]), u, i + 1)

\* The ids of a set in ascending order.
RECURSIVE SortedSeq(_)
SortedSeq(S) ==
    IF S = {} THEN <<>>
    ELSE LET m == CHOOSE x \in S : \A y \in S : x <= y
         IN <<m>> \o SortedSeq(S \ {m})

FocusOf(tree) == IF tree = None THEN 0 ELSE tree[1].focused_node_id
Resolve(nodes, id) == IF id \in DOMAIN nodes THEN id ELSE 0

\* (an engine that mutates in place and stops at the violating entry)
Rejected_InPlace(s, w) ==
    [changes |-> w.changes, ok |-> FALSE, state |-> State(w.nodes, s.root, s.tree)]

\* A rejected batch: the state as it was before the batch (not the working
\* copy w), and no change.
Rejected(s, w) == [changes |-> <<>>, ok |-> FALSE, state |-> s]

\* (an engine that never reports a focus move)
FocusChange_Silent(old_tree, tree, nodes) == <<>>

\* The focus move of a batch: if the whole-tree metadata changed the focused
\* node id, one FocusMoved with the previous and the new focused node, each
\* resolved in the store (a missing node resolves to absent).
FocusChange(old_tree, tree, nodes) ==
    IF FocusOf(tree) # FocusOf(old_tree)
    THEN <<FocusMoved(Resolve(nodes, FocusOf(old_tree)),
                      Resolve(nodes, FocusOf(tree)))>>
    ELSE <<>>

\* (an engine that reports the focus move before the other changes)
Committed_FocusFirst(s, w, root, tree) ==
    LET reachable == Subtree(w.nodes, root)
        nodes == Restrict(w.nodes, DOMAIN w.nodes \cap reachable)
        removed == SortedSeq(w.removed \cup (DOMAIN w.nodes \ reachable))
        gone == [i \in 1..Len(removed) |-> NodeRemoved(removed[i])]
        focus == FocusChange(s.tree, tree, nodes)
    IN [changes |-> focus \o w.changes \o gone,
        ok |-> TRUE,
        state |-> State(nodes, root, tree)]

\* An accepted batch: the nodes unreachable from the root are deleted, the
\* removals are reported after the entries' changes, and a focus move last.
Committed(s, w, root, tree) ==
    LET reachable == Subtree(w.nodes, root)
        nodes == Restrict(w.nodes, DOMAIN w.nodes \cap reachable)
        removed == SortedSeq(w.removed \cup (DOMAIN w.nodes \ reachable))
        gone == [i \in 1..Len(removed) |-> NodeRemoved(removed[i])]
        focus == FocusChange(s.tree, tree, nodes)
    IN [changes |-> w.changes \o gone \o focus,
        ok |-> TRUE,
        state |-> State(nodes, root, tree)]

\* apply(update): [ok, state, changes].
Apply(s, u) ==
    LET w == ApplyNodes(s, Clear(Work(s), u.node_id_to_clear), u, 1)
        root == IF u.root_id # 0 THEN u.root_id ELSE s.root
        tree == IF u.tree # None THEN u.tree ELSE s.tree
    IN IF /\ w.ok
          /\ PlaceholdersUpdated(w)
          /\ ClearedNodeUpdated(u)
          /\ root \in DOMAIN w.nodes
          /\ tree # None
       THEN Committed(s, w, root, tree)
       ELSE Rejected(s, w)

\* read().root(): the current root node.
ReadRoot(s) == s.root

\* The stores the engine's memory goes through while it applies u to s: after
\* the clear, and after each further entry; the root id and the metadata are
\* replaced at the end.
PartialStates(s, u) ==
    {State(ApplyNodes(s, Clear(Work(s), u.node_id_to_clear),
                      [u EXCEPT !.nodes = SubSeq(u.nodes, 1, k)], 1).nodes,
           s.root, s.tree) : k \in 0..Len(u.nodes)}

(* ------------------ platforms/windows/src/manager.rs ------------------- *)
\* The surface identity of the one Manager modelled.
Hwnd == "hwnd"
PlatformNode(node, hwnd) == [hwnd |-> hwnd, node_id |-> node]

\* MSAA / UIA object ids (windows crate), as manager.rs line 88 compares them.
UiaRootObjectId == -25
OBJID_CLIENT == -4

\* LPARAM is a 64-bit isize, kept as its four 16-bit words, w3 the highest.
LParam(w3, w2, w1, w0) == [w0 |-> w0, w1 |-> w1, w2 |-> w2, w3 |-> w3]
\* (lparam.0 & 0xFFFFFFFF) as i32
ObjId(lparam) ==
    IF lparam.w1 >= 32768
    THEN (lparam.w1 - 65536) * 65536 + lparam.w0
    ELSE lparam.w1 * 65536 + lparam.w0

\* The guard of handle_wm_getobject: TRUE when it returns None.
NotAnswered(objid) == objid < 0 /\ objid # UiaRootObjectId /\ objid # OBJID_CLIENT

\* ResolvedPlatformNode::raise_property_changes: one property-changed call
\* for each property that differs between the two snapshots.
RaisePropertyChanges(id, old, new) ==
    IF old.name # new.name
    THEN <<[call |-> "UiaRaiseAutomationPropertyChangedEvent",
            element |-> PlatformNode(id, Hwnd), new |-> new.name,
            old |-> old.name, property |-> "Name"]>>
    ELSE <<>>

\* (a closure without the NodeUpdated arm)
ProcessChange_FocusOnly(change) ==
    IF change.kind = "FocusMoved" /\ change.new_node # 0
    THEN <<[call |-> "UiaRaiseAutomationEvent",
            element |-> PlatformNode(change.new_node, Hwnd),
            event |-> "UIA_AutomationFocusChangedEventId"]>>
    ELSE <<>>

\* (a closure that also notifies for nodes added and removed)
ProcessChange_Structural(change) ==
    IF change.kind = "FocusMoved" /\ change.new_node # 0
    THEN <<[call |-> "UiaRaiseAutomationEvent",
            element |-> PlatformNode(change.new_node, Hwnd),
            event |-> "UIA_AutomationFocusChangedEventId"]>>
    ELSE IF change.kind = "NodeUpdated"
    THEN RaisePropertyChanges(change.id, change.old_node, change.new_node)
    ELSE IF change.kind \in {"NodeAdded", "NodeRemoved"}
    THEN <<[call |-> "UiaRaiseStructureChangedEvent",
            element |-> PlatformNode(change.id, Hwnd)]>>
    ELSE <<>>

\* (a closure that raises the focus event only when the focus moved from a
\* node)
ProcessChange_FromNode(change) ==
    IF change.kind = "FocusMoved" /\ change.new_node # 0 /\ change.old_node # 0
    THEN <<[call |-> "UiaRaiseAutomationEvent",
            element |-> PlatformNode(change.new_node, Hwnd),
            event |-> "UIA_AutomationFocusChangedEventId"]>>
    ELSE IF change.kind = "NodeUpdated"
    THEN RaisePropertyChanges(change.id, change.old_node, change.new_node)
    ELSE <<>>

\* The closure update_internal passes to update_and_process_changes.
ProcessChange(change) ==
    IF change.kind = "FocusMoved" /\ change.new_node # 0
    THEN <<[call |-> "UiaRaiseAutomationEvent",
            element |-> PlatformNode(change.new_node, Hwnd),
            event |-> "UIA_AutomationFocusChangedEventId"]>>
    ELSE IF change.kind = "NodeUpdated"
    THEN RaisePropertyChanges(change.id, change.old_node, change.new_node)
    ELSE <<>>

RECURSIVE ProcessChanges(_, _)
ProcessChanges(changes, i) ==
    IF i > Len(changes) THEN <<>>
    ELSE ProcessChange(changes[i]) \o ProcessChanges(changes, i + 1)

(* ------------------------------ inputs --------------------------------- *)
RECURSIVE SeqsUpTo(_, _)
\* The sequences over S of length at most n.
SeqsUpTo(S, n) ==
    IF n = 0 THEN {<<>>}
    ELSE LET shorter == SeqsUpTo(S, n - 1)
         IN shorter \cup {Append(q, x) : q \in {r \in shorter : Len(r) = n - 1}, x \in S}

NoDuplicates(q) == \A i, j \in 1..Len(q) : i # j => q[i] # q[j]
ChildSeqs == {q \in SeqsUpTo(NodeIds, MaxChildren) : NoDuplicates(q)}
Entries == {Node(id, c, n) : id \in NodeIds, c \in ChildSeqs, n \in Names}
OptTrees == {t : t \in {None} \cup {Some(Tree(f)) : f \in OptNodeId}}

IsLeaf(e) == e.child_ids = <<>>

\* The TreeUpdates a producer hands to update: no node and any header; one
\* node, optionally cleared, made the root or focused; two nodes, one of them
\* a leaf, the first optionally cleared.
BatchFamilies ==
    {TreeUpdate(c, <<>>, t, r) : c \in OptNodeId, t \in OptTrees, r \in OptNodeId}
    \cup
    UNION {{TreeUpdate(c, <<e>>, None, r) : c \in {0, e.id}, r \in {0, e.id}} :
             e \in Entries}
    \cup
    {TreeUpdate(0, <<e>>, Some(Tree(e.id)), 0) : e \in Entries}
    \cup
    UNION {{TreeUpdate(c, q, None, 0) : c \in {0, q[1].id}} :
             q \in {r \in SeqsUpTo(Entries, MaxBatchLen) :
                      Len(r) >= 2 /\ \E i \in 1..Len(r) : IsLeaf(r[i])}}
\* (enumerated once, as an explicit set)
Batches == {u : u \in BatchFamilies}

\* The TreeUpdates of the concurrent callers: at most one leaf node, with or
\* without whole-tree metadata; and one that clears node 1 and gives it the
\* one child 2.
BridgeBatches ==
    {TreeUpdate(0, q, t, 0) :
        q \in {<<>>, <<Node(1, <<>>, "Bar")>>, <<Node(3, <<>>, "Foo")>>},
        t \in {None, Some(Tree(1)), Some(Tree(3))}}
    \cup {TreeUpdate(1, <<Node(1, <<2>>, "Foo"), Node(2, <<>>, "Foo")>>, None, 0)}

\* The seeds a Manager is constructed with (InitTree::init_accesskit_tree).
Seeds ==
    {TreeUpdate(0, <<Node(1, <<>>, "Foo")>>, Some(Tree(0)), 1),
     TreeUpdate(0, <<Node(1, <<2, 3>>, "Foo"), Node(2, <<>>, "Foo"), Node(3, <<>>, "Bar")>>,
                Some(Tree(2)), 1),
     TreeUpdate(0, <<Node(2, <<1>>, "Bar"), Node(1, <<3>>, "Foo"), Node(3, <<>>, "Foo")>>,
                Some(Tree(3)), 2)}

\* The lparam values of WM_GETOBJECT messages: object ids -25, -4, -1, 0, 1,
\* i32::MIN and i32::MAX, zero-extended or sign-extended to 64 bits.
LParams ==
    {LParam(h, h, w[1], w[2]) :
        h \in {0, 65535},
        w \in {<<65535, 65511>>, <<65535, 65532>>, <<65535, 65535>>, <<0, 0>>,
               <<0, 1>>, <<32768, 0>>, <<32767, 65535>>}}
\* Those of the concurrent callers: object ids -25, -4 and -1.
BridgeLParams ==
    {LParam(w[1], w[1], 65535, w[2]) : w \in {<<65535, 65511>>, <<0, 65532>>, <<65535, 65535>>}}

(* ------------------------------- state --------------------------------- *)
VARIABLES
    lazy,       \* LazyTransform: "Uninitialized", "Constructing" or "Constructed"
    seed,       \* the Init value held while Uninitialized: Some(seed), else None
    tree,       \* the engine state of the constructed Tree
    initCalls,  \* how often the initializer closure of get_or_create_tree ran
    pc,         \* per caller: where it is in its call
    op,         \* per caller: the entry point it called
    arg,        \* per caller: the TreeUpdate or LPARAM of the call
    held,       \* per caller: the Tree instance it obtained (0: none)
    out,        \* per caller: what the call produced
    built,      \* the caller whose call ran the initializer, until it returns (0: none)
    kept        \* the element a client holds, and the tree when it got it (None: none)

vars == <<lazy, seed, tree, initCalls, pc, op, arg, held, out, built, kept>>

NoArg == <<>>
NoOut == [kind |-> "none", producer |-> 0]
\* What update_internal produced: the tree before the batch, the outcome,
\* the change sequence, the native calls raised, the native call that failed
\* (None if none did) and how the call ends for its caller.
UpdateOut(pre, ok, changes, native, producer, failure, result) ==
    [changes |-> changes, failure |-> failure, kind |-> "update",
     native |-> native, ok |-> ok, pre |-> pre, producer |-> producer,
     result |-> result]
\* update_if_active returning early.
SkippedOut == [kind |-> "skipped", producer |-> 0]
\* Option<LRESULT> of handle_wm_getobject.
ReplyOut(reply) == [kind |-> "reply", reply |-> reply]
\* The same with the snapshot the reply was made from.
ReadOut(reply, seen) == [kind |-> "reply", reply |-> reply, seen |-> seen]

Init ==
    /\ lazy = "Uninitialized"
    /\ seed \in {Some(u) : u \in Seeds}
    /\ tree = EmptyState
    /\ initCalls = 0
    /\ pc = [t \in Threads |-> "idle"]
    /\ op = [t \in Threads |-> "none"]
    /\ arg = [t \in Threads |-> NoArg]
    /\ held = [t \in Threads |-> 0]
    /\ out = [t \in Threads |-> NoOut]
    /\ built = 0
    /\ kept = None

(* ------------------------------ actions -------------------------------- *)
\* The statement after get_or_create_tree returns, by entry point.
AfterGetOrCreate(t) ==
    IF op[t] = "update" THEN "update_internal" ELSE "root_platform_node"

\* Manager::update is called with the TreeUpdate u.
update(t, u) ==
    /\ pc[t] = "idle"
    /\ pc' = [pc EXCEPT ![t] = "get_or_create_tree"]
    /\ op' = [op EXCEPT ![t] = "update"]
    /\ arg' = [arg EXCEPT ![t] = u]
    /\ UNCHANGED <<lazy, seed, tree, initCalls, held, out, built, kept>>

\* (a handle that lets every caller that finds it unconstructed construct it)
get_or_create_tree_Unguarded(t) ==
    /\ pc[t] = "get_or_create_tree"
    /\ \/ /\ lazy = "Constructed"
          /\ held' = [held EXCEPT ![t] = initCalls]
          /\ pc' = [pc EXCEPT ![t] = AfterGetOrCreate(t)]
       \/ /\ lazy = "Uninitialized"
          /\ pc' = [pc EXCEPT ![t] = "init"]
          /\ UNCHANGED held
    /\ UNCHANGED <<lazy, seed, tree, initCalls, op, arg, out, built, kept>>

\* LazyTransform::get_or_create: the instance if constructed; the caller that
\* finds the handle Uninitialized takes it to Constructing and will run the
\* initializer; a caller that finds it Constructing waits.
get_or_create_tree(t) ==
    /\ pc[t] = "get_or_create_tree"
    /\ \/ /\ lazy = "Constructed"
          /\ held' = [held EXCEPT ![t] = initCalls]
          /\ pc' = [pc EXCEPT ![t] = AfterGetOrCreate(t)]
          /\ UNCHANGED lazy
       \/ /\ lazy = "Uninitialized"
          /\ lazy' = "Constructing"
          /\ pc' = [pc EXCEPT ![t] = "init"]
          /\ UNCHANGED held
    /\ UNCHANGED <<seed, tree, initCalls, op, arg, out, built, kept>>

\* (a constructor that leaves the initial TreeUpdate out)
Tree_new_Empty(initial_state) == EmptyState

\* Tree::new(initial_state): the initial TreeUpdate applied to the empty tree.
Tree_new(initial_state) == Apply(EmptyState, initial_state).state

\* (a handle that runs the initializer and never becomes Constructed)
init_accesskit_tree_Unpublished(t) ==
    /\ pc[t] = "init"
    /\ seed # None
    /\ Apply(EmptyState, seed[1]).ok
    /\ initCalls' = initCalls + 1
    /\ tree' = Apply(EmptyState, seed[1]).state
    /\ seed' = None
    /\ held' = [held EXCEPT ![t] = initCalls + 1]
    /\ pc' = [pc EXCEPT ![t] = AfterGetOrCreate(t)]
    /\ built' = t
    /\ UNCHANGED <<lazy, op, arg, out, kept>>

\* The initializer closure, |init| Tree::new(init.init_accesskit_tree()): it
\* consumes the Init value, and the handle becomes Constructed.
init_accesskit_tree(t) ==
    /\ pc[t] = "init"
    /\ seed # None
    /\ Apply(EmptyState, seed[1]).ok
    /\ initCalls' = initCalls + 1
    /\ tree' = Tree_new(seed[1])
    /\ seed' = None
    /\ lazy' = "Constructed"
    /\ held' = [held EXCEPT ![t] = initCalls + 1]
    /\ pc' = [pc EXCEPT ![t] = AfterGetOrCreate(t)]
    /\ built' = t
    /\ UNCHANGED <<op, arg, out, kept>>

\* The position of the first UiaRaiseAutomationEvent among the calls (0: none).
FirstFocusCall(calls) ==
    IF \E i \in 1..Len(calls) : calls[i].call = "UiaRaiseAutomationEvent"
    THEN CHOOSE i \in 1..Len(calls) :
            /\ calls[i].call = "UiaRaiseAutomationEvent"
            /\ \A j \in 1..(i - 1) : calls[j].call # "UiaRaiseAutomationEvent"
    ELSE 0

\* UiaRaiseAutomationEvent(..).unwrap(): if the call fails, the closure
\* panics there and the calls after it are not made.
RaisedCalls(calls, fails) ==
    IF fails THEN SubSeq(calls, 1, FirstFocusCall(calls)) ELSE calls
FailedCall(calls, fails) ==
    IF fails THEN Some(calls[FirstFocusCall(calls)]) ELSE None

\* How update_internal ends for its caller: the panic of unwrap() unwinds
\* through update / update_if_active; otherwise the call returns ().
CallResult(fails) == IF fails THEN "panicked" ELSE "returned"

\* A caller is inside the engine, applying a batch (it has the tree's state
\* for writing).
Applying(t) == pc[t] = "applying"

\* The tree's state can be taken, for reading or for writing: no caller has
\* it for writing.
NoWriter == \A other \in Threads : ~Applying(other)

\* Manager::update_internal: it calls tree.update_and_process_changes, which
\* takes the tree's state for writing once no other caller has it.
update_internal(t) ==
    /\ pc[t] = "update_internal"
    /\ NoWriter
    /\ pc' = [pc EXCEPT ![t] = "applying"]
    /\ UNCHANGED <<lazy, seed, tree, initCalls, op, arg, held, out, built, kept>>

\* tree.update_and_process_changes(update, closure): the batch is applied,
\* the state is released and the closure processes the changes; the native
\* focus-changed call may fail.
update_and_process_changes(t) ==
    /\ Applying(t)
    /\ \E fails \in BOOLEAN :
         LET r == Apply(tree, arg[t])
             calls == ProcessChanges(r.changes, 1)
         IN /\ fails => FirstFocusCall(calls) # 0
            /\ tree' = r.state
            /\ out' = [out EXCEPT ![t] =
                          UpdateOut(tree, r.ok, r.changes, RaisedCalls(calls, fails),
                                    out[t].producer, FailedCall(calls, fails),
                                    CallResult(fails))]
    /\ pc' = [pc EXCEPT ![t] = "done"]
    /\ UNCHANGED <<lazy, seed, initCalls, op, arg, held, built, kept>>

\* (an update_if_active that gets or creates the tree, as update does)
update_if_active_Forcing(t, u) ==
    /\ pc[t] = "idle"
    /\ op' = [op EXCEPT ![t] = "update_if_active"]
    /\ arg' = [arg EXCEPT ![t] = u]
    /\ out' = [out EXCEPT ![t] = [kind |-> "none", producer |-> 1]]
    /\ pc' = [pc EXCEPT ![t] = "get_or_create_tree"]
    /\ UNCHANGED <<lazy, seed, tree, initCalls, held, built, kept>>

\* (a get() that hands out the instance in the making while the handle is
\* Constructing)
update_if_active_HalfBuilt(t, u) ==
    /\ pc[t] = "idle"
    /\ op' = [op EXCEPT ![t] = "update_if_active"]
    /\ IF lazy # "Uninitialized"
       THEN /\ held' = [held EXCEPT ![t] = initCalls]
            /\ arg' = [arg EXCEPT ![t] = u]
            /\ out' = [out EXCEPT ![t] = [kind |-> "none", producer |-> 1]]
            /\ pc' = [pc EXCEPT ![t] = "update_internal"]
       ELSE /\ out' = [out EXCEPT ![t] = SkippedOut]
            /\ pc' = [pc EXCEPT ![t] = "done"]
            /\ UNCHANGED <<arg, held>>
    /\ UNCHANGED <<lazy, seed, tree, initCalls, built, kept>>

\* (an update_if_active that returns early whatever the handle holds)
update_if_active_Inert(t, u) ==
    /\ pc[t] = "idle"
    /\ op' = [op EXCEPT ![t] = "update_if_active"]
    /\ out' = [out EXCEPT ![t] = SkippedOut]
    /\ pc' = [pc EXCEPT ![t] = "done"]
    /\ UNCHANGED <<lazy, seed, tree, initCalls, arg, held, built, kept>>

\* (an update_if_active that calls the updater before it looks at the handle)
update_if_active_Eager(t, u) ==
    /\ pc[t] = "idle"
    /\ op' = [op EXCEPT ![t] = "update_if_active"]
    /\ arg' = [arg EXCEPT ![t] = u]
    /\ out' = [out EXCEPT ![t] = [kind |-> "none", producer |-> 1]]
    /\ IF lazy = "Constructed"
       THEN /\ held' = [held EXCEPT ![t] = initCalls]
            /\ pc' = [pc EXCEPT ![t] = "update_internal"]
       ELSE /\ pc' = [pc EXCEPT ![t] = "done"]
            /\ UNCHANGED held
    /\ UNCHANGED <<lazy, seed, tree, initCalls, built, kept>>

\* Manager::update_if_active: tree.get(), and the updater (which returns u)
\* only if it is Some.
update_if_active(t, u) ==
    /\ pc[t] = "idle"
    /\ op' = [op EXCEPT ![t] = "update_if_active"]
    /\ IF lazy = "Constructed"
       THEN /\ held' = [held EXCEPT ![t] = initCalls]
            /\ arg' = [arg EXCEPT ![t] = u]
            /\ out' = [out EXCEPT ![t] = [kind |-> "none", producer |-> 1]]
            /\ pc' = [pc EXCEPT ![t] = "update_internal"]
       ELSE /\ out' = [out EXCEPT ![t] = SkippedOut]
            /\ pc' = [pc EXCEPT ![t] = "done"]
            /\ UNCHANGED <<arg, held>>
    /\ UNCHANGED <<lazy, seed, tree, initCalls, built, kept>>

\* (a handler that gets the tree before it tests the object id)
handle_wm_getobject_TreeFirst(t, lparam) ==
    /\ pc[t] = "idle"
    /\ op' = [op EXCEPT ![t] = "handle_wm_getobject"]
    /\ arg' = [arg EXCEPT ![t] = lparam]
    /\ IF NotAnswered(ObjId(lparam))
       THEN /\ out' = [out EXCEPT ![t] = ReplyOut(None)]
            /\ pc' = [pc EXCEPT ![t] = "done"]
            /\ IF lazy = "Uninitialized"
               THEN /\ lazy' = "Constructed"
                    /\ tree' = Tree_new(seed[1])
                    /\ seed' = None
                    /\ initCalls' = initCalls + 1
                    /\ built' = t
               ELSE UNCHANGED <<lazy, seed, tree, initCalls, built>>
       ELSE /\ pc' = [pc EXCEPT ![t] = "get_or_create_tree"]
            /\ UNCHANGED <<out, lazy, seed, tree, initCalls, built>>
    /\ UNCHANGED <<held, kept>>

\* Manager::handle_wm_getobject up to the object id test.
handle_wm_getobject(t, lparam) ==
    /\ pc[t] = "idle"
    /\ op' = [op EXCEPT ![t] = "handle_wm_getobject"]
    /\ arg' = [arg EXCEPT ![t] = lparam]
    /\ IF NotAnswered(ObjId(lparam))
       THEN /\ out' = [out EXCEPT ![t] = ReplyOut(None)]
            /\ pc' = [pc EXCEPT ![t] = "done"]
       ELSE /\ pc' = [pc EXCEPT ![t] = "get_or_create_tree"]
            /\ UNCHANGED out
    /\ UNCHANGED <<lazy, seed, tree, initCalls, held, built, kept>>

\* (a read that does not wait for a batch being applied, and sees the store
\* as it is in memory)
root_platform_node_Unlocked(t) ==
    /\ pc[t] = "root_platform_node"
    /\ \E seen \in IF \E w \in Threads : Applying(w)
                    THEN UNION {PartialStates(tree, arg[w]) : w \in {x \in Threads : Applying(x)}}
                    ELSE {tree} :
          out' = [out EXCEPT ![t] =
                     ReadOut(Some(PlatformNode(ReadRoot(seen), Hwnd)), seen)]
    /\ pc' = [pc EXCEPT ![t] = "done"]
    /\ UNCHANGED <<lazy, seed, tree, initCalls, op, arg, held, built, kept>>

\* Manager::root_platform_node after get_or_create_tree: tree.read() waits
\* while a batch is being applied; and the reply UiaReturnRawElementProvider
\* makes of the root's PlatformNode.
root_platform_node(t) ==
    /\ pc[t] = "root_platform_node"
    /\ NoWriter
    /\ out' = [out EXCEPT ![t] =
                  ReadOut(Some(PlatformNode(ReadRoot(tree), Hwnd)), tree)]
    /\ pc' = [pc EXCEPT ![t] = "done"]
    /\ UNCHANGED <<lazy, seed, tree, initCalls, op, arg, held, built, kept>>

\* The call returns to its caller.
return(t) ==
    /\ pc[t] = "done"
    /\ pc' = [pc EXCEPT ![t] = "idle"]
    /\ op' = [op EXCEPT ![t] = "none"]
    /\ arg' = [arg EXCEPT ![t] = NoArg]
    /\ held' = [held EXCEPT ![t] = 0]
    /\ out' = [out EXCEPT ![t] = NoOut]
    /\ built' = (IF built = t THEN 0 ELSE built)
    /\ UNCHANGED <<lazy, seed, tree, initCalls, kept>>

\* What a query through an element gives: the node's data, or not found.
Found(node) == [found |-> TRUE, node |-> node]
NotFound == [found |-> FALSE]
QueryOut(element, result) == [element |-> element, kind |-> "query", result |-> result]

\* The elements a finished call hands to the client: the reply of
\* handle_wm_getobject and the targets of the focus-changed events.
Offered(t) ==
    IF out[t].kind = "reply" THEN Range(out[t].reply)
    ELSE IF out[t].kind = "update"
    THEN {out[t].native[i].element :
            i \in {j \in 1..Len(out[t].native) :
                      out[t].native[j].call = "UiaRaiseAutomationEvent"}}
    ELSE {}

\* The call returns and the client keeps an element it was handed.
retain(t) ==
    /\ pc[t] = "done"
    /\ \E element \in Offered(t) : kept' = Some([element |-> element, seen |-> tree])
    /\ pc' = [pc EXCEPT ![t] = "idle"]
    /\ op' = [op EXCEPT ![t] = "none"]
    /\ arg' = [arg EXCEPT ![t] = NoArg]
    /\ held' = [held EXCEPT ![t] = 0]
    /\ out' = [out EXCEPT ![t] = NoOut]
    /\ built' = (IF built = t THEN 0 ELSE built)
    /\ UNCHANGED <<lazy, seed, tree, initCalls>>

\* PlatformNode::resolve: the element's node id looked up in a snapshot.
ResolveElement(s, element) ==
    IF element.node_id \in DOMAIN s.nodes
    THEN Found(s.nodes[element.node_id])
    ELSE NotFound

\* (an element that answers from the snapshot it was made from)
Lookup_Stale(k, s) == ResolveElement(k.seen, k.element)

\* What a query through a kept element answers from: the tree as it is now.
Lookup(k, s) == ResolveElement(s, k.element)

\* A client's query through the element it holds (a property getter of the
\* PlatformNode), which reads the tree.
query(t) ==
    /\ pc[t] = "idle"
    /\ kept # None
    /\ NoWriter
    /\ out' = [out EXCEPT ![t] = QueryOut(kept[1].element, Lookup(kept[1], tree))]
    /\ op' = [op EXCEPT ![t] = "query"]
    /\ pc' = [pc EXCEPT ![t] = "done"]
    /\ UNCHANGED <<lazy, seed, tree, initCalls, arg, held, built, kept>>

\* Any number of callers on one Manager, concurrently.
Next ==
    \E t \in Threads :
        \/ pc[t] = "idle" /\ \E u \in BridgeBatches : update(t, u)
        \/ pc[t] = "idle" /\ \E u \in BridgeBatches : update_if_active(t, u)
        \/ pc[t] = "idle" /\ \E lparam \in BridgeLParams : handle_wm_getobject(t, lparam)
        \/ get_or_create_tree(t)
        \/ init_accesskit_tree(t)
        \/ update_internal(t)
        \/ update_and_process_changes(t)
        \/ root_platform_node(t)
        \/ return(t)

Spec == Init /\ [][Next]_vars

\* The next step of a caller that is inside a call.
Step(t) ==
    \/ get_or_create_tree(t)
    \/ init_accesskit_tree(t)
    \/ update_internal(t)
    \/ update_and_process_changes(t)
    \/ root_platform_node(t)
    \/ return(t)

\* A caller that is inside a call keeps running: its next step is taken if
\* it stays possible. Nothing obliges a caller to start a call.
Running(t) == WF_vars(Step(t))

\* The TreeUpdates and lparams of the callers under fair scheduling: an empty
\* batch and a renaming of node 1; object ids -4 and -1.
FairBatches ==
    {TreeUpdate(0, q, None, 0) : q \in {<<>>, <<Node(1, <<>>, "Bar")>>}}
FairLParams ==
    {LParam(w[1], w[1], 65535, w[2]) : w \in {<<0, 65532>>, <<65535, 65535>>}}

NextFair ==
    \E t \in Threads :
        \/ pc[t] = "idle" /\ \E u \in FairBatches : update(t, u)
        \/ pc[t] = "idle" /\ \E lparam \in FairLParams : handle_wm_getobject(t, lparam)
        \/ get_or_create_tree(t)
        \/ init_accesskit_tree(t)
        \/ update_internal(t)
        \/ update_and_process_changes(t)
        \/ root_platform_node(t)
        \/ return(t)

\* The Manager of the callers under fair scheduling is constructed with the
\* one-node seed.
InitFair == Init /\ Len(seed[1].nodes) = 1

\* The concurrent callers under fair scheduling.
SpecFair == InitFair /\ [][NextFair]_vars /\ \A t \in Threads : Running(t)

\* One caller at a time (the host serializes its calls), any batch.
NextEngine ==
    \/ pc[1] = "idle" /\ \E u \in Batches : update(1, u)
    \/ pc[1] = "idle" /\ \E u \in BridgeBatches : update_if_active(1, u)
    \/ pc[1] = "idle" /\ \E lparam \in LParams : handle_wm_getobject(1, lparam)
    \/ get_or_create_tree(1)
    \/ init_accesskit_tree(1)
    \/ update_internal(1)
    \/ update_and_process_changes(1)
    \/ root_platform_node(1)
    \/ return(1)

SpecEngine == Init /\ [][NextEngine]_vars

\* The TreeUpdates of the caller whose client holds an element: those of the
\* concurrent callers, one that makes node 3 the root and one that makes
\* node 1 the root again.
ClientBatches ==
    BridgeBatches
    \cup {TreeUpdate(0, <<Node(3, <<>>, "Bar")>>, Some(Tree(3)), 3),
          TreeUpdate(0, <<Node(1, <<2>>, "Bar"), Node(2, <<>>, "Bar")>>, Some(Tree(2)), 1)}

\* One caller and the client of its replies and events.
NextClient ==
    \/ pc[1] = "idle" /\ \E u \in ClientBatches : update(1, u)
    \/ pc[1] = "idle" /\ \E lparam \in BridgeLParams : handle_wm_getobject(1, lparam)
    \/ get_or_create_tree(1)
    \/ init_accesskit_tree(1)
    \/ update_internal(1)
    \/ update_and_process_changes(1)
    \/ root_platform_node(1)
    \/ return(1)
    \/ retain(1)
    \/ query(1)

SpecClient == Init /\ [][NextClient]_vars

(* ------------------------------ claims --------------------------------- *)
\* A call of update or update_if_active that went through update_internal and
\* has not returned yet: arg[t] is its batch, out[t] what it produced.
UpdateDone(t) == pc[t] = "done" /\ out[t].kind = "update"

\* The ids that have n among their children.
Parents(nodes, n) == {p \in DOMAIN nodes : n \in Range(nodes[p].child_ids)}
\* The ids that have n among their descendants.
Ancestors(nodes, n) == {a \in DOMAIN nodes : n \in Descendants(nodes, a)}

\* A single rooted tree: the root is stored, every child id is stored (no
\* dangling child), every stored id is reachable from the root (no orphan),
\* the root has no parent and every other node exactly one, once (no cycle).
WellFormed(s) ==
    /\ s.root \in DOMAIN s.nodes
    /\ \A n \in DOMAIN s.nodes : Range(s.nodes[n].child_ids) \subseteq DOMAIN s.nodes
    /\ Subtree(s.nodes, s.root) = DOMAIN s.nodes
    /\ Parents(s.nodes, s.root) = {}
    /\ \A n \in DOMAIN s.nodes \ {s.root} : Cardinality(Parents(s.nodes, n)) = 1
    /\ \A n \in DOMAIN s.nodes : NoDuplicates(s.nodes[n].child_ids)

\* C1. Reachability invariant: once the tree is constructed, and after every
\* update applied to it, the root is in the store, every stored id is
\* reachable from the root through child_ids, and every child id is stored.
C1_Reachability == lazy = "Constructed" => WellFormed(tree)

\* An accepted update that clears a node and changes the root, and removed
\* nodes by it.
C1_Witness ==
    /\ UpdateDone(1) /\ out[1].ok
    /\ arg[1].node_id_to_clear # 0
    /\ arg[1].root_id # 0 /\ out[1].pre.root # tree.root
    /\ Cardinality(DOMAIN tree.nodes) < Cardinality(DOMAIN out[1].pre.nodes)
    /\ WellFormed(tree)

C3_LazyConstruction ==
    [][\A t \in Threads :
         pc[t] = "idle" /\ op'[t] = "update_if_active" /\ lazy # "Constructed" =>
             /\ pc'[t] = "done"
             /\ out'[t] = SkippedOut
             /\ arg'[t] = NoArg /\ held'[t] = 0
             /\ UNCHANGED <<lazy, seed, tree, initCalls>>]_vars

\* update_if_active has returned early while the other caller is constructing
\* the tree, which is still empty.
C3_Witness ==
    /\ pc[1] = "done" /\ op[1] = "update_if_active" /\ out[1] = SkippedOut
    /\ lazy = "Constructing" /\ pc[2] = "init"
    /\ initCalls = 0 /\ tree = EmptyState

\* C4. Exactly-once construction: under any interleaving the initializer runs
\* at most once, at most one caller is ever inside it, and every caller that
\* holds a tree holds the one instance it built.
C4_ExactlyOnce ==
    /\ initCalls <= 1
    /\ Cardinality({t \in Threads : pc[t] = "init"}) + initCalls <= 1
    /\ \A t \in Threads : held[t] # 0 => lazy = "Constructed" /\ held[t] = 1

\* Two callers raced to be first: one is in the initializer, the other, come
\* from another entry point, is at get_or_create.
C4_Witness ==
    /\ pc[1] = "init" /\ op[1] = "update"
    /\ pc[2] = "get_or_create_tree" /\ op[2] = "handle_wm_getobject"
    /\ lazy = "Constructing"

\* The object id of the query handle_wm_getobject was called with.
QueryObjId(t) == ObjId(arg[t])
\* handle_wm_getobject is about to return Some(reply).
Replied(t) ==
    pc[t] = "done" /\ op[t] = "handle_wm_getobject" /\ out[t].reply # None

\* C5. handle_wm_getobject replies only to queries whose object id is
\* OBJID_CLIENT or UiaRootObjectId; for every other object id, negative, zero
\* or positive, the result is absent.
C5_RepliesOnlyToClientOrRoot ==
    \A t \in Threads : Replied(t) => QueryObjId(t) \in {OBJID_CLIENT, UiaRootObjectId}

\* The entries of a batch and their ids.
EntryIds(u) == {u.nodes[i].id : i \in 1..Len(u.nodes)}

\* Entry i of u lists k as a child while k is, in the tree `pre` the batch is
\* applied to, the child of another node, and nothing before entry i removed
\* k from there: k is not below the cleared node, and no earlier entry
\* re-specified an ancestor of k.
Reparents(pre, u, i, k) ==
    /\ k \in Range(u.nodes[i].child_ids)
    /\ Parents(pre.nodes, k) # {}
    /\ u.nodes[i].id \notin Parents(pre.nodes, k)
    /\ u.node_id_to_clear \notin Ancestors(pre.nodes, k)
    /\ \A j \in 1..(i - 1) : u.nodes[j].id \notin Ancestors(pre.nodes, k)

\* C6. Reparenting rejection: an update in which some entry lists as a child
\* an id that is in the tree as the child of a different parent, without that
\* id having been removed from its old parent first, is rejected.
C6_ReparentingRejected ==
    \A t \in Threads :
        UpdateDone(t) /\ (\E i \in 1..Len(arg[t].nodes), k \in NodeIds :
                            Reparents(out[t].pre, arg[t], i, k))
            => ~out[t].ok

\* A rejected batch whose second entry takes another node's child, after a
\* first entry that alone would have been accepted.
C6_Witness ==
    /\ UpdateDone(1) /\ ~out[1].ok
    /\ Len(arg[1].nodes) = 2
    /\ \E k \in NodeIds \ {arg[1].nodes[2].id} :
          /\ Reparents(out[1].pre, arg[1], 2, k)
          /\ arg[1].nodes[2].id \in DOMAIN out[1].pre.nodes
          /\ arg[1].nodes[2].id \notin Subtree(out[1].pre.nodes, k)
    /\ Apply(out[1].pre, [arg[1] EXCEPT !.nodes = <<arg[1].nodes[1]>>]).ok

\* Entry i of u lists as a child the id k, which is not in the tree `pre`,
\* and u has no entry for k.
Dangles(pre, u, i, k) ==
    /\ k \in Range(u.nodes[i].child_ids)
    /\ k \notin DOMAIN pre.nodes
    /\ k \notin EntryIds(u)

\* C7. Dangling-child rejection: an update in which some entry lists a child
\* id that was not in the tree, with no entry for that id in the same batch,
\* is rejected; and the constructed tree never holds a child id that is not
\* stored (no placeholder survives a batch).
C7_DanglingChildRejected ==
    /\ \A t \in Threads :
          UpdateDone(t) /\ (\E i \in 1..Len(arg[t].nodes), k \in NodeIds :
                              Dangles(out[t].pre, arg[t], i, k))
              => ~out[t].ok
    /\ lazy = "Constructed" =>
          \A n \in DOMAIN tree.nodes :
              Range(tree.nodes[n].child_ids) \subseteq DOMAIN tree.nodes

\* A rejected batch of two entries: the first adds a child that is new and
\* never defined, the second is an entry for another node, which the tree
\* would take.
C7_Witness ==
    /\ UpdateDone(1) /\ ~out[1].ok
    /\ Len(arg[1].nodes) = 2
    /\ arg[1].nodes[1].id # arg[1].nodes[2].id
    /\ arg[1].nodes[1].id \in DOMAIN out[1].pre.nodes
    /\ \E k \in NodeIds : Dangles(out[1].pre, arg[1], 1, k)
    /\ Apply(out[1].pre, [arg[1] EXCEPT !.nodes = <<arg[1].nodes[2]>>]).ok

\* The id of entry i is in the tree when the entry is processed: it was in
\* the tree `pre` and not deleted by the clear, or an earlier entry listed it
\* as a child; or the tree is empty and the entry is the batch's root.
EntryKnown(pre, u, i) ==
    LET id == u.nodes[i].id
    IN \/ /\ id \in DOMAIN pre.nodes
          /\ id \notin Descendants(pre.nodes, u.node_id_to_clear)
       \/ \E j \in 1..(i - 1) : id \in Range(u.nodes[j].child_ids)
       \/ pre.nodes = <<>> /\ u.root_id = id

\* C8. Upsert precondition: a batch is accepted only if each of its entries,
\* when processed, has an id that is in the tree (placeholders of earlier
\* entries included) or is the designated root of an empty tree: both for a
\* batch applied to the constructed tree and for the batch a tree is built
\* from.
C8_UpsertPrecondition ==
    /\ \A t \in Threads :
          UpdateDone(t) /\ out[t].ok =>
              \A i \in 1..Len(arg[t].nodes) : EntryKnown(out[t].pre, arg[t], i)
    /\ lazy = "Uninitialized" /\ (\A t \in Threads : pc[t] = "idle") =>
          \A u \in Batches \cup Seeds :
              Apply(EmptyState, u).ok =>
                  \A i \in 1..Len(u.nodes) : EntryKnown(EmptyState, u, i)

\* A rejected batch whose only entry has an id the tree does not know, and
\* which is otherwise in order.
C8_Witness ==
    /\ UpdateDone(1) /\ ~out[1].ok
    /\ Len(arg[1].nodes) = 1 /\ arg[1].node_id_to_clear = 0
    /\ arg[1].nodes[1].child_ids = <<>>
    /\ ~EntryKnown(out[1].pre, arg[1], 1)

\* C9. Clear requires re-specification: a batch that clears N without an
\* entry for N is rejected; in an accepted batch that clears N, a descendant
\* N had is in the tree afterwards only if the batch has an entry for it,
\* and N itself is still in the tree (unless the batch also re-specifies an
\* ancestor of N or names a root).
C9_ClearRespecified ==
    \A t \in Threads :
        UpdateDone(t) /\ arg[t].node_id_to_clear # 0 =>
            LET N == arg[t].node_id_to_clear
                pre == out[t].pre
            IN /\ N \notin EntryIds(arg[t]) => ~out[t].ok
               /\ out[t].ok /\ N \in DOMAIN pre.nodes =>
                     /\ Descendants(pre.nodes, N) \cap DOMAIN tree.nodes
                            \subseteq EntryIds(arg[t])
                     /\ \/ N \in DOMAIN tree.nodes
                        \/ EntryIds(arg[t]) \cap Ancestors(pre.nodes, N) # {}
                        \/ arg[t].root_id # 0

\* An accepted batch that clears a node with two descendants and gives it
\* one of them back: that one is in the tree, the other is gone.
C9_Witness ==
    /\ UpdateDone(1) /\ out[1].ok
    /\ arg[1].node_id_to_clear \in DOMAIN tree.nodes
    /\ \E d1, d2 \in Descendants(out[1].pre.nodes, arg[1].node_id_to_clear) :
          d1 \in DOMAIN tree.nodes /\ d2 \notin DOMAIN tree.nodes

\* The batch u restates the tree s: every entry has the content the node has
\* in s, and the metadata and the root id are absent or the same.
Restates(s, u) ==
    /\ \A i \in 1..Len(u.nodes) :
          /\ u.nodes[i].id \in DOMAIN s.nodes
          /\ NodeData(u.nodes[i].child_ids, u.nodes[i].name) = s.nodes[u.nodes[i].id]
    /\ u.tree = None \/ u.tree = s.tree
    /\ u.root_id = 0 \/ u.root_id = s.root

\* C10. Round-trip idempotence: a batch that restates the current content of
\* the nodes it mentions, the metadata and the root yields an empty change
\* sequence, leaves the tree as it was, and no native call is raised; with
\* nothing to clear it is accepted.
C10_RoundTrip ==
    \A t \in Threads :
        UpdateDone(t) /\ Restates(out[t].pre, arg[t]) =>
            /\ out[t].changes = <<>>
            /\ tree = out[t].pre
            /\ out[t].native = <<>>
            /\ arg[t].node_id_to_clear = 0 => out[t].ok

\* An accepted batch that clears a node and restates it and its child.
C10_Witness ==
    /\ UpdateDone(1) /\ out[1].ok
    /\ Restates(out[1].pre, arg[1])
    /\ Len(arg[1].nodes) = 2
    /\ arg[1].node_id_to_clear # 0
    /\ Descendants(out[1].pre.nodes, arg[1].node_id_to_clear) # {}

\* The batch u changes nothing but the focused node id of the tree s: no
\* clear, no root id, entries (if any) that restate their nodes, and
\* metadata whose focused node B is in the tree and is not the node A that
\* is focused in s, itself in the tree.
OnlyFocusChanges(s, u) ==
    /\ u.node_id_to_clear = 0 /\ u.root_id = 0
    /\ u.tree # None
    /\ Restates(s, [u EXCEPT !.tree = None])
    /\ FocusOf(s.tree) \in DOMAIN s.nodes
    /\ FocusOf(u.tree) \in DOMAIN s.nodes
    /\ FocusOf(u.tree) # FocusOf(s.tree)

\* C11. Change completeness for focus: with A focused, a batch that changes
\* only the metadata's focused_node_id to B, B present, is accepted and
\* yields exactly one change, FocusMoved(old = A, new = B): no NodeUpdated,
\* NodeAdded or NodeRemoved; the store is as it was and B is focused.
C11_FocusOnly ==
    \A t \in Threads :
        UpdateDone(t) /\ OnlyFocusChanges(out[t].pre, arg[t]) =>
            /\ out[t].ok
            /\ out[t].changes =
                   <<[kind |-> "FocusMoved",
                      new_node |-> FocusOf(arg[t].tree),
                      old_node |-> FocusOf(out[t].pre.tree)]>>
            /\ tree.nodes = out[t].pre.nodes /\ tree.root = out[t].pre.root
            /\ tree.tree = arg[t].tree

\* Such a batch, with an entry that restates the newly focused node, a child
\* of the previously focused one.
C11_Witness ==
    /\ UpdateDone(1) /\ OnlyFocusChanges(out[1].pre, arg[1])
    /\ Len(arg[1].nodes) = 1
    /\ arg[1].nodes[1].id = FocusOf(arg[1].tree)
    /\ FocusOf(out[1].pre.tree) \in Parents(out[1].pre.nodes, FocusOf(arg[1].tree))
    /\ Len(out[1].changes) = 1

\* The tree s has the root R with exactly the children X and Y, and the batch
\* u clears R, redefines R with the children <<Y>> and restates Y.
ClearsAndKeeps(s, u, R, X, Y) ==
    /\ s.root = R /\ X # Y
    /\ Len(s.nodes[R].child_ids) = 2 /\ Range(s.nodes[R].child_ids) = {X, Y}
    /\ u.node_id_to_clear = R
    /\ u.root_id \in {0, R}
    /\ Len(u.nodes) = 2
    /\ u.nodes[1].id = R /\ u.nodes[1].child_ids = <<Y>>
    /\ u.nodes[2].id = Y
    /\ NodeData(u.nodes[2].child_ids, u.nodes[2].name) = s.nodes[Y]

\* The changes of a sequence that are of one kind, or about one node.
ChangesOfKind(changes, kind) == SelectSeq(changes, LAMBDA c : c.kind = kind)
ChangesAbout(changes, id) ==
    SelectSeq(changes, LAMBDA c : c.kind # "FocusMoved" /\ c.id = id)

\* C12. Removal via clear: with root R and children [X, Y], a batch that
\* clears R, redefines R with children [Y] and restates Y identically is
\* accepted and yields exactly one NodeRemoved, for X, and no NodeAdded,
\* NodeRemoved or NodeUpdated for Y; afterwards X is not in the store and Y
\* is, with the content it had.
C12_RemovalViaClear ==
    \A t \in Threads : \A R, X, Y \in NodeIds :
        UpdateDone(t) /\ ClearsAndKeeps(out[t].pre, arg[t], R, X, Y) =>
            /\ out[t].ok
            /\ ChangesOfKind(out[t].changes, "NodeRemoved")
                   = <<[id |-> X, kind |-> "NodeRemoved"]>>
            /\ ChangesAbout(out[t].changes, Y) = <<>>
            /\ X \notin DOMAIN tree.nodes
            /\ Y \in DOMAIN tree.nodes /\ tree.nodes[Y] = out[t].pre.nodes[Y]

\* Such a batch, accepted, with two changes: R's content and X's removal.
C12_Witness ==
    /\ UpdateDone(1) /\ out[1].ok
    /\ \E R, X, Y \in NodeIds : ClearsAndKeeps(out[1].pre, arg[1], R, X, Y)
    /\ Len(out[1].changes) = 2
    /\ out[1].changes[1].kind = "NodeUpdated"

\* The batch u redefines the node N of the tree s with another name and
\* everything else identical, and does nothing else.
RenamesOnly(s, u, N) ==
    /\ u.node_id_to_clear = 0 /\ u.root_id \in {0, s.root}
    /\ u.tree = None \/ u.tree = s.tree
    /\ Len(u.nodes) = 1 /\ u.nodes[1].id = N
    /\ N \in DOMAIN s.nodes
    /\ u.nodes[1].child_ids = s.nodes[N].child_ids
    /\ u.nodes[1].name # s.nodes[N].name

\* The native property-changed calls among the calls raised.
PropertyCalls(native) ==
    SelectSeq(native, LAMBDA c : c.call = "UiaRaiseAutomationPropertyChangedEvent")
\* The NodeUpdated changes whose snapshots differ in the name.
NameChanges(changes) ==
    SelectSeq(changes, LAMBDA c : c.kind = "NodeUpdated" /\ c.old_node.name # c.new_node.name)

\* C13. Content diff precision: redefining N with only its name changed
\* yields exactly one change, NodeUpdated for N with the old and the new
\* snapshot, and exactly one native property-changed call, for the Name
\* property of (hwnd, N); in general the property-changed calls of a batch
\* are those of its NodeUpdated changes whose names differ, in order, and
\* none announces a value that did not change.
C13_ContentDiffPrecision ==
    \A t \in Threads :
        UpdateDone(t) =>
            /\ \A N \in NodeIds :
                  RenamesOnly(out[t].pre, arg[t], N) =>
                      /\ out[t].ok
                      /\ out[t].changes =
                             <<[id |-> N, kind |-> "NodeUpdated",
                                new_node |-> [child_ids |-> arg[t].nodes[1].child_ids,
                                              name |-> arg[t].nodes[1].name],
                                old_node |-> out[t].pre.nodes[N]]>>
                      /\ out[t].native =
                             <<[call |-> "UiaRaiseAutomationPropertyChangedEvent",
                                element |-> [hwnd |-> Hwnd, node_id |-> N],
                                new |-> arg[t].nodes[1].name,
                                old |-> out[t].pre.nodes[N].name,
                                property |-> "Name"]>>
            /\ LET calls == PropertyCalls(out[t].native)
                   renamed == NameChanges(out[t].changes)
               IN /\ Len(calls) = Len(renamed)
                  /\ \A i \in 1..Len(calls) :
                        /\ calls[i].property = "Name"
                        /\ calls[i].old # calls[i].new
                        /\ calls[i].element.node_id = renamed[i].id
                        /\ calls[i].old = renamed[i].old_node.name
                        /\ calls[i].new = renamed[i].new_node.name

\* A rename of the focused node, which has a child, from "Foo" to "Bar".
C13_Witness ==
    /\ UpdateDone(1)
    /\ \E N \in NodeIds :
          /\ RenamesOnly(out[1].pre, arg[1], N)
          /\ FocusOf(out[1].pre.tree) = N
          /\ out[1].pre.nodes[N].child_ids # <<>>
          /\ out[1].pre.nodes[N].name = "Foo"
    /\ Len(out[1].native) = 1

\* What applying the batch of caller t to the tree it found amounts to: the
\* outcome, the changes, the native calls and the tree left behind.
AppliedNormally(t) ==
    LET r == Apply(out[t].pre, arg[t])
    IN /\ out[t].ok = r.ok
       /\ out[t].changes = r.changes
       /\ out[t].native = ProcessChanges(r.changes, 1)
       /\ tree = r.state

\* C14. update_if_active equals update once constructed: on a constructed
\* handle update_if_active invokes the updater once, takes the tree that
\* was built and goes on to update_internal with the batch, and the call
\* then has the effect update has with that batch on that tree: the same
\* outcome, change sequence, native calls and resulting tree.
C14_SameAsUpdate ==
    /\ [](\A t \in Threads :
            UpdateDone(t) =>
                /\ op[t] \in {"update", "update_if_active"}
                /\ out[t].producer = (IF op[t] = "update_if_active" THEN 1 ELSE 0)
                /\ held[t] = 1
                /\ AppliedNormally(t))
    /\ [][\A t \in Threads :
            pc[t] = "idle" /\ op'[t] = "update_if_active" /\ lazy = "Constructed" =>
                /\ pc'[t] = "update_internal"
                /\ out'[t].producer = 1
                /\ arg'[t] \in BridgeBatches
                /\ held'[t] = initCalls
                /\ UNCHANGED <<lazy, seed, tree, initCalls>>]_vars

\* update_if_active has applied a batch that changed the tree and raised a
\* native call.
C14_Witness ==
    /\ UpdateDone(1) /\ op[1] = "update_if_active"
    /\ out[1].ok /\ out[1].producer = 1
    /\ tree # out[1].pre
    /\ out[1].native # <<>>

\* The call of caller t ran the initializer and has not returned.
Built(t) == built = t

\* C15. A tree is constructed only for surfaces a native client has queried:
\* the handle is constructed only if an earlier handle_wm_getobject call
\* matched. With one caller at a time the call that runs the initializer is
\* the first that asked for the tree, so this says that call is a
\* handle_wm_getobject which passed the object id test.
C15_ConstructedOnlyAfterQuery ==
    \A t \in Threads :
        Built(t) => op[t] = "handle_wm_getobject" /\ ~NotAnswered(QueryObjId(t))

\* C15, as the code has it: the handle leaves Uninitialized only in a call of
\* update or in a handle_wm_getobject call that passed the object id test,
\* never in update_if_active; the call that ran the initializer is one of
\* those, and while no such call has been made the handle is Uninitialized.
C15_ConstructedOnlyOnDemand ==
    /\ \A t \in Threads :
          pc[t] = "init" \/ Built(t) =>
              \/ op[t] = "update"
              \/ op[t] = "handle_wm_getobject" /\ ~NotAnswered(QueryObjId(t))
    /\ \A t \in Threads :
          op[t] = "update_if_active" => pc[t] \notin {"get_or_create_tree", "init"}
    /\ lazy # "Uninitialized" => initCalls = 1 \/ \E t \in Threads : pc[t] = "init"

\* A call of update has constructed the tree and applied its batch to it.
C15_Witness ==
    /\ Built(1) /\ op[1] = "update" /\ lazy = "Constructed"
    /\ UpdateDone(1) /\ out[1].ok
    /\ tree # out[1].pre

\* The number of times the call c was made.
TimesRaised(native, c) == Cardinality({i \in 1..Len(native) : native[i] = c})

\* C16. Native-call failure is propagated: when the native focus-changed call
\* fails while the changes of a batch are processed, the failure is returned
\* to the caller of update / update_if_active as a failure outcome (the call
\* returns, with an error), the tree is that of the fully applied batch, and
\* the failed call was made once and nothing was raised after it.
C16_FailureReturned ==
    \A t \in Threads :
        UpdateDone(t) /\ out[t].failure # None =>
            /\ out[t].result = "returned error"
            /\ tree = Apply(out[t].pre, arg[t]).state
            /\ TimesRaised(out[t].native, out[t].failure[1]) = 1
            /\ out[t].native[Len(out[t].native)] = out[t].failure[1]

QueryDone(t) == pc[t] = "done" /\ op[t] = "query"

FocusCalls(native) ==
    SelectSeq(native, LAMBDA c : c.call = "UiaRaiseAutomationEvent")
\* The FocusMoved changes whose new node is present.
FocusArrivals(changes) ==
    SelectSeq(changes, LAMBDA c : c.kind = "FocusMoved" /\ c.new_node # 0)

\* C19. Focus notification mapping: the native focus-changed calls of a
\* batch are, in order, one for each FocusMoved change whose new_node is
\* present, each for the focus-changed event and the element (hwnd, new node
\* id), whatever old_node is; a FocusMoved change whose new_node is absent
\* raises none.
C19_FocusNotification ==
    \A t \in Threads :
        UpdateDone(t) =>
            LET calls == FocusCalls(out[t].native)
                moved == FocusArrivals(out[t].changes)
            IN /\ Len(calls) = Len(moved)
               /\ \A i \in 1..Len(calls) :
                     /\ calls[i].event = "UIA_AutomationFocusChangedEventId"
                     /\ calls[i].element = PlatformNode(moved[i].new_node, Hwnd)
               /\ ChangesOfKind(out[t].changes, "FocusMoved") # <<>> /\ moved = <<>>
                     => calls = <<>>

\* The focus moved from no node to a node, and the one call was raised for
\* that node.
C19_Witness ==
    /\ UpdateDone(1)
    /\ \E n \in NodeIds :
          /\ ChangesOfKind(out[1].changes, "FocusMoved") = <<FocusMoved(0, n)>>
          /\ FocusCalls(out[1].native) =
                <<[call |-> "UiaRaiseAutomationEvent",
                   element |-> PlatformNode(n, Hwnd),
                   event |-> "UIA_AutomationFocusChangedEventId"]>>

StructuralChanges(changes) ==
    SelectSeq(changes, LAMBDA c : c.kind \in {"NodeAdded", "NodeRemoved"})

\* C21. Structural changes are silent natively: the native calls of update
\* and update_if_active are focus-changed events and property-changed
\* notifications only, as many as the FocusMoved changes with a new node and
\* the NodeUpdated changes with a changed name give; NodeAdded and
\* NodeRemoved changes add no call, and a batch whose changes are all
\* NodeAdded or NodeRemoved makes no native call at all.
C21_StructuralSilent ==
    \A t \in Threads :
        UpdateDone(t) =>
            LET native == out[t].native
                changes == out[t].changes
            IN /\ \A i \in 1..Len(native) :
                     native[i].call \in {"UiaRaiseAutomationEvent",
                                         "UiaRaiseAutomationPropertyChangedEvent"}
               /\ Len(native) <= Len(FocusArrivals(changes)) + Len(NameChanges(changes))
               /\ out[t].failure = None =>
                     Len(native) = Len(FocusArrivals(changes)) + Len(NameChanges(changes))
               /\ StructuralChanges(changes) = changes => native = <<>>

\* A batch that added a node and removed another, and nothing else: no
\* native call.
C21_Witness ==
    /\ UpdateDone(1)
    /\ out[1].ok
    /\ \E i, j \in 1..Len(out[1].changes) :
          /\ out[1].changes[i].kind = "NodeAdded"
          /\ out[1].changes[j].kind = "NodeRemoved"
          /\ out[1].changes[i].id # out[1].changes[j].id
    /\ StructuralChanges(out[1].changes) = out[1].changes
    /\ out[1].native = <<>>

\* update_if_active got an instance from get() and has not returned yet.
GotInstance(t) ==
    /\ op[t] = "update_if_active"
    /\ \/ pc[t] \in {"update_internal", "applying"}
       \/ UpdateDone(t)

\* C22. get() never constructs and never exposes a half-built tree: the
\* get() of update_if_active, on a handle that is Uninitialized or
\* Constructing, gives absent and leaves the handle, the seed, the tree and
\* the initializer alone (the call skips); it gives an instance only when the
\* handle is Constructed, so a caller of update_if_active that goes on to
\* apply its batch has the one constructed instance, whose tree is the whole
\* seed tree or what whole batches made of it.
C22_GetNeverHalfBuilt ==
    /\ [][\A t \in Threads :
            pc[t] = "idle" /\ op'[t] = "update_if_active" =>
                /\ UNCHANGED <<lazy, seed, tree, initCalls>>
                /\ IF lazy \in {"Uninitialized", "Constructing"}
                   THEN pc'[t] = "done" /\ out'[t] = SkippedOut /\ held'[t] = 0
                   ELSE pc'[t] = "update_internal" /\ held'[t] = 1]_vars
    /\ [](\A t \in Threads :
            GotInstance(t) =>
                /\ lazy = "Constructed" /\ seed = None /\ initCalls = 1
                /\ held[t] = 1
                /\ \A other \in Threads : pc[other] # "init"
                /\ WellFormed(tree)
                /\ UpdateDone(t) => WellFormed(out[t].pre))

\* update_if_active raced with the first native query: the query's caller
\* constructed the tree and has not returned yet, and the batch was applied
\* to the constructed tree.
C22_Witness ==
    /\ op[1] = "update_if_active" /\ UpdateDone(1) /\ out[1].ok
    /\ out[1].changes # <<>>
    /\ op[2] = "handle_wm_getobject" /\ Built(2) /\ pc[2] # "idle"

\* The caller is in get_or_create, come from update or from a query that is
\* answered.
InGetOrCreate(t) == pc[t] = "get_or_create_tree"
\* get_or_create has returned the instance to the caller.
HasInstance(t) ==
    /\ pc[t] \in {"update_internal", "root_platform_node"}
    /\ op[t] \in {"update", "handle_wm_getobject"}

\* C23. Construction liveness: under fair scheduling, every caller that is in
\* get_or_create, whether the handle is Uninitialized, Constructing or
\* Constructed, eventually has the instance returned to it; a caller waits
\* while the handle is Constructing, and whoever has the instance has the
\* one instance, which the initializer has constructed (no early return).
C23_ConstructionLiveness ==
    /\ \A t \in Threads : InGetOrCreate(t) ~> HasInstance(t)
    /\ [](\A t \in Threads :
            HasInstance(t) => held[t] = 1 /\ initCalls = 1 /\ seed = None)
    /\ [][\A t \in Threads :
            InGetOrCreate(t) /\ lazy = "Constructing" => InGetOrCreate(t)']_vars

\* The caller that lost the race has been handed the instance that the
\* winner, which has not returned yet, constructed.
C23_Witness ==
    /\ Built(2) /\ op[2] = "handle_wm_getobject" /\ pc[2] = "done"
    /\ HasInstance(1) /\ op[1] = "update" /\ held[1] = 1

\* handle_wm_getobject is about to return None.
Unanswered(t) ==
    pc[t] = "done" /\ op[t] = "handle_wm_getobject" /\ out[t].reply = None

\* C24. A non-matching native query has no effect: handle_wm_getobject
\* returns absent only for an object id it does not answer, and then in its
\* first step: the handle, the seed, the initializer count and the tree are
\* as they were (an unconstructed tree stays unconstructed), the caller never
\* had the tree, and no native call was made, not even the one that makes a
\* reply; its return changes none of these either.
C24_NonMatchingQueryNoEffect ==
    /\ [][\A t \in Threads :
            pc[t] = "idle" /\ op'[t] = "handle_wm_getobject"
              /\ NotAnswered(ObjId(arg'[t])) =>
                /\ pc'[t] = "done"
                /\ out'[t] = ReplyOut(None)
                /\ held'[t] = 0
                /\ UNCHANGED <<lazy, seed, tree, initCalls, built>>]_vars
    /\ [][\A t \in Threads :
            Unanswered(t) /\ pc'[t] = "idle" =>
                UNCHANGED <<lazy, seed, tree, initCalls, built>>]_vars
    /\ [](\A t \in Threads :
            Unanswered(t) =>
                /\ NotAnswered(QueryObjId(t))
                /\ held[t] = 0
                /\ out[t] = ReplyOut(None)
                /\ ~Built(t))

\* A query for object id -1 on a Manager whose tree was never asked for is
\* about to return None, and the tree is still unconstructed.
C24_Witness ==
    /\ Unanswered(1)
    /\ QueryObjId(1) = -1
    /\ lazy = "Uninitialized" /\ seed # None /\ initCalls = 0
    /\ tree = EmptyState

\* The trees the seeds make.
SeedTrees == {Apply(EmptyState, u).state : u \in Seeds}

\* C25. First update on an unconstructed surface: the update that finds the
\* handle unconstructed runs the initializer, once, which makes the tree the
\* seed's tree and raises nothing; only then is its batch applied, to that
\* tree: the outcome, the changes and the native calls are those of the batch
\* against the seed tree, and a batch that is not valid against the seed tree
\* is rejected and leaves the seed tree.
C25_FirstUpdate ==
    /\ [][\A t \in Threads :
            pc[t] = "init" /\ op[t] = "update" /\ pc'[t] # "init" =>
                /\ pc'[t] = "update_internal"
                /\ initCalls = 0 /\ initCalls' = 1
                /\ tree' = Apply(EmptyState, seed[1]).state
                /\ out[t] = NoOut /\ out'[t] = NoOut
                /\ arg'[t] = arg[t]]_vars
    /\ [](\A t \in Threads :
            Built(t) /\ op[t] = "update" =>
                /\ initCalls = 1
                /\ pc[t] \in {"update_internal", "applying"} =>
                      tree \in SeedTrees /\ out[t] = NoOut
                /\ UpdateDone(t) =>
                      LET r == Apply(out[t].pre, arg[t])
                      IN /\ out[t].pre \in SeedTrees
                         /\ out[t].ok = r.ok
                         /\ out[t].changes = r.changes
                         /\ out[t].native = ProcessChanges(r.changes, 1)
                         /\ tree = r.state
                         /\ ~r.ok => tree = out[t].pre /\ out[t].native = <<>>)

\* The first update, on the seed with three nodes, renamed one of them and
\* removed another: its changes and its one native call are those against
\* the seed tree.
C25_Witness ==
    /\ Built(1) /\ op[1] = "update" /\ UpdateDone(1) /\ out[1].ok
    /\ Cardinality(DOMAIN out[1].pre.nodes) = 3
    /\ ChangesOfKind(out[1].changes, "NodeUpdated") # <<>>
    /\ ChangesOfKind(out[1].changes, "NodeRemoved") # <<>>
    /\ Len(PropertyCalls(out[1].native)) = 1

====
